---- MODULE Spec2Model ----
(***************************************************************************)
(* Model of src/edgeJsPlugin.js: the patches the plugin applies to the     *)
(* template engine's Template.prototype (escape, renderRaw, render,        *)
(* reThrow) and the placeholder resolver resolveAsyncPlaceholders.         *)
(*                                                                         *)
(* Strings are sequences of chunks; a chunk is a piece of text that the    *)
(* code never splits (a literal character, an HTML entity, or one whole    *)
(* sentinel token).  Every interpolation of a template contributes exactly *)
(* one chunk, so position k of an output is the k-th interpolation.        *)
(***************************************************************************)
EXTENDS Integers, Sequences, FiniteSets, TLC

\* ------------------------------------------------------------- bounds
MaxItems == 2        \* interpolations evaluated in one behaviour
MaxPromises == 2     \* promise objects created in one behaviour
MaxInits == 1        \* calls of the extension's init hook

Templates == {"tA", "tB"}     \* Template objects (the `this` of the patches)
Invocations == {"i1", "i2"}   \* render invocations
Promises == 1 .. MaxPromises

\* ------------------------------------------------------------- values
\* JavaScript values that reach escape, or that a promise resolves to.
Null == [t |-> "null", s |-> "", p |-> 0]
Undefined == [t |-> "undefined", s |-> "", p |-> 0]
Str(s) == [t |-> "string", s |-> s, p |-> 0]
PromiseObj(p) == [t |-> "promise", s |-> "", p |-> p]
NumberValue == [t |-> "number", s |-> "7", p |-> 0]
\* An object that is not a native promise and has a method `then`.
ThenableObj(p) == [t |-> "thenable", s |-> "", p |-> p]
\* A function that has a property `then` which is a function.
ThenableFn == [t |-> "thenableFn", s |-> "", p |-> 0]

\* input == null  (loose equality: null and undefined only)
IsNullish(v) == v.t \in {"null", "undefined"}

\* typeof input
TypeOf(v) ==
  CASE v.t = "undefined" -> "undefined"
    [] v.t = "string" -> "string"
    [] v.t = "thenableFn" -> "function"
    [] v.t = "function" -> "function"
    [] v.t = "boolean" -> "boolean"
    [] v.t = "number" -> "number"
    [] OTHER -> "object"

\* typeof input.then === "function"
HasCallableThen(v) == v.t \in {"promise", "thenable", "thenableFn"}

\* -------------------------------------------------- sentinel tokens
ASYNC_PREFIX == "\\0__EDGE_ASYNC_"
ASYNC_SUFFIX == "__\\0"

\* `${ ASYNC_PREFIX }${ idx }${ ASYNC_SUFFIX }`
Token(idx) == ASYNC_PREFIX \o ToString(idx) \o ASYNC_SUFFIX

\* Largest index a token can carry within the bounds.
MaxTokenIndex == MaxPromises + MaxItems

\* ASYNC_PATTERN matches the chunk
IsToken(chunk) == \E k \in 0 .. MaxTokenIndex : chunk = Token(k)

\* parseInt( idx ) of the captured digits
ParseIdx(chunk) == CHOOSE k \in 0 .. MaxTokenIndex : chunk = Token(k)

\* ASYNC_PATTERN.test( output )
HasToken(output) == \E k \in DOMAIN output : IsToken(output[k])

\* ------------------------------------------- the engine's own escape
\* HTML encoding of one chunk of text, as the engine's escape does it.
HtmlEncode(s) ==
  CASE s = "<" -> "&lt;"
    [] s = ">" -> "&gt;"
    [] s = "&" -> "&amp;"
    [] OTHER -> s

\* String( input )
ToStr(v) ==
  CASE v.t = "null" -> "null"
    [] v.t = "undefined" -> "undefined"
    [] v.t = "string" -> v.s
    [] v.t = "number" -> v.s
    [] v.t = "promise" -> "[object Promise]"
    [] v.t = "thenable" -> "[object Object]"
    [] OTHER -> "[thenable function]"

\* _originalEscape.call( this, input )
OriginalEscape(v) == HtmlEncode(ToStr(v))

\* ------------------------------------------------------------ escape
\* this.__pendingPromises is undefined
Absent == <<0>>

\* Escape without its nullish test.
Escape_NoNullCheck(list, input) ==
  IF TypeOf(input) = "object" /\ HasCallableThen(input)
  THEN LET l == IF list = Absent THEN <<>> ELSE list
       IN [out |-> Token(Len(l)), list |-> Append(l, input.p), delegated |-> FALSE]
  ELSE [out |-> OriginalEscape(input), list |-> list, delegated |-> TRUE]

\* Escape that inserts a value that is not a thenable without encoding it.
Escape_Unencoded(list, input) ==
  IF IsNullish(input)
  THEN [out |-> "", list |-> list, delegated |-> FALSE]
  ELSE IF TypeOf(input) = "object" /\ HasCallableThen(input)
  THEN LET l == IF list = Absent THEN <<>> ELSE list
       IN [out |-> Token(Len(l)), list |-> Append(l, input.p), delegated |-> FALSE]
  ELSE [out |-> ToStr(input), list |-> list, delegated |-> TRUE]

\* Escape that reads the index after the push.
Escape_IndexAfterPush(list, input) ==
  IF IsNullish(input)
  THEN [out |-> "", list |-> list, delegated |-> FALSE]
  ELSE IF TypeOf(input) = "object" /\ HasCallableThen(input)
  THEN LET l == IF list = Absent THEN <<>> ELSE list
       IN [out |-> Token(Len(l) + 1), list |-> Append(l, input.p), delegated |-> FALSE]
  ELSE [out |-> OriginalEscape(input), list |-> list, delegated |-> TRUE]

\* Template.prototype.escape: the fragment returned, the pending list after
\* the call, and whether the call delegated to the engine's escape.
Escape(list, input) ==
  IF IsNullish(input)
  THEN [out |-> "", list |-> list, delegated |-> FALSE]
  ELSE IF TypeOf(input) = "object" /\ HasCallableThen(input)
  THEN LET l == IF list = Absent THEN <<>> ELSE list
           idx == Len(l)
       IN [out |-> Token(idx), list |-> Append(l, input.p), delegated |-> FALSE]
  ELSE [out |-> OriginalEscape(input), list |-> list, delegated |-> TRUE]

\* ---------------------------------------------------------- resolver
\* The resolver without its fast path: Promise.all is called on any list.
ResolveEntry_NoFastPath(list, output) ==
  [kind |-> "await", out |-> output, batch |-> IF list = Absent THEN <<>> ELSE list,
   list |-> IF list = Absent THEN <<>> ELSE list]

\* resolveAsyncPlaceholders up to its await: the fast path returns the
\* output unchanged; otherwise Promise.all is called on the list as it is now.
\* Neither path assigns the list before the await.
ResolveEntry(list, output) ==
  IF list = Absent \/ Len(list) = 0
  THEN [kind |-> "return", out |-> output, batch |-> <<>>, list |-> list]
  ELSE [kind |-> "await", out |-> output, batch |-> list, list |-> list]

\* A substitution that leaves a token whose index has no resolved value.
Substitute_KeepUnknown(output, resolved) ==
  [k \in DOMAIN output |->
    IF IsToken(output[k]) /\ ParseIdx(output[k]) + 1 \in DOMAIN resolved
    THEN LET val == resolved[ParseIdx(output[k]) + 1]
         IN IF IsNullish(val) THEN "" ELSE OriginalEscape(val)
    ELSE output[k]]

\* output.replace( ASYNC_PATTERN, ... ): every token becomes "" when the
\* resolved value at its index is nullish (or there is none), and the engine's
\* escape of that value otherwise.
Substitute(output, resolved) ==
  [k \in DOMAIN output |->
    IF IsToken(output[k])
    THEN LET idx == ParseIdx(output[k])
             val == IF idx + 1 \in DOMAIN resolved THEN resolved[idx + 1] ELSE Undefined
         IN IF IsNullish(val) THEN "" ELSE OriginalEscape(val)
    ELSE output[k]]

\* resolveAsyncPlaceholders after its await: the list is replaced by a new
\* empty one, the tokens are substituted, and if a token is left the resolver
\* is entered again (synchronously, so with the list it has just emptied).
ResolveResume(output, resolved) ==
  LET replaced == Substitute(output, resolved)
  IN IF HasToken(replaced) THEN ResolveEntry(<<>>, replaced)
     ELSE [kind |-> "return", out |-> replaced, batch |-> <<>>, list |-> <<>>]

\* ------------------------------------------------------------- state
VARIABLES
  pendingPromises,   \* [Templates -> list]: this.__pendingPromises
  promises,          \* [Promises -> [st, val]]: the promise objects
  settleOrder,       \* the promises in the order they settled
  inv,               \* [Invocations -> record]: the render invocations
  running,           \* the invocation inside a synchronous engine run
  errorObjs,         \* [Errors -> fields]: the error objects
  lastReThrow,       \* the last call of the patched reThrow
  lastCall,          \* the last direct call of escape or of the resolver
  host,              \* the arguments edgeJsPlugin was called with
  plugin,            \* what edgeJsPlugin has done to the host and the engines
  lastHook           \* the last call of a hook of the extension, or of a
                     \* function that a hook returned

vars == <<pendingPromises, promises, settleOrder, inv, running, errorObjs, lastReThrow,
          lastCall, host, plugin, lastHook>>
renderVars == <<pendingPromises, promises, settleOrder, inv, running>>
errorVars == <<errorObjs, lastReThrow>>
callVars == <<lastCall>>
pluginVars == <<host, plugin, lastHook>>

NoPromise == 0
EngineError == Str("engine error")

\* The reason promise p rejects with.
Reason(p) == Str("reason " \o ToString(p))

IdleInv ==
  [pc |-> "idle", entry |-> "", mode |-> "", tmpl |-> "",
   items |-> <<>>,          \* the interpolations evaluated: [raw, v, frag, delegated]
   out |-> <<>>,            \* the output string built or returned so far
   listAtCall |-> Absent,   \* the pending list when the engine render was invoked
   preOut |-> <<>>,         \* the output handed to the last substitution
   batch |-> <<>>,          \* the promises handed to Promise.all
   firstRej |-> NoPromise,  \* the rejection Promise.all settled with
   rejSeen |-> {},          \* batch promises rejected when the render rejected
   underlying |-> "none",   \* the underlying render's result
   resolved |-> FALSE,      \* the resolver has returned
   resolverRet |-> <<>>,    \* the string the resolver returned
   rounds |-> 0,            \* batches awaited
   settledAtAwait |-> 0,    \* promises settled before Promise.all was called
   reason |-> Undefined]

\* No direct call has been made yet.
NoCall ==
  [fn |-> "none", list |-> Absent, input |-> Undefined, output |-> <<>>,
   ret |-> "", retOut |-> <<>>, kind |-> "", listAfter |-> Absent, delegated |-> FALSE,
   resolved |-> <<>>]

\* ------------------------------------------------------- the plugin
\* A name without an entry in a registry, an option that is not given.
NoEntry == "none"

\* The names under which the host and the options register things.
Names == {"icon", "year"}

\* The objects getFilters(), getShortcodes(), getPairedShortcodes() and
\* options.globals can be: any subset of the names, each name bound to an
\* object of its own.
Registries(category) ==
  {[n \in Names |-> IF n \in S THEN category \o ":" \o n ELSE NoEntry] : S \in SUBSET Names}

EmptyTable == [n \in Names |-> NoEntry]

\* The engine instance the caller supplies and the one Edge.create makes.
EngineIds == {"supplied", "created"}

\* The options argument: undefined or null (NoOptions), or an object in which
\* cache and eleventyLibraryOverride are given or not, with a globals object
\* (an object without one is merged with the default {}, the empty table).
NoOptions == [given |-> FALSE, cache |-> NoEntry, eleventyLibraryOverride |-> NoEntry,
              globals |-> EmptyTable, hasGlobals |-> FALSE]
OptionObjects ==
  [given : {TRUE}, cache : {NoEntry, "true", "false"},
   eleventyLibraryOverride : {NoEntry, "null", "supplied"},
   globals : Registries("global"), hasGlobals : {TRUE}]
OptionArgs == {NoOptions} \cup OptionObjects

\* The host configuration object at the time the plugin is registered.
HostConfigs ==
  [compatible : BOOLEAN, filters : Registries("filter"),
   shortcodes : Registries("shortcode"), pairedShortcodes : Registries("paired")]

NoHost == [called |-> FALSE, config |-> [compatible |-> TRUE, filters |-> EmptyTable,
             shortcodes |-> EmptyTable, pairedShortcodes |-> EmptyTable],
           options |-> NoOptions]

NoPlugin ==
  [status |-> "none",        \* "registered" once edgeJsPlugin has returned
   options |-> [cache |-> "false", eleventyLibraryOverride |-> NoEntry, globals |-> EmptyTable],
   formats |-> {},           \* addTemplateFormats
   created |-> <<>>,         \* the argument of each Edge.create call
   edge |-> NoEntry,         \* the variable edge
   globals |-> [e \in EngineIds |-> EmptyTable],   \* each engine's global table
   extensions |-> {},        \* addExtension
   mounts |-> <<>>,          \* the edge.mount calls: [engine, dir]
   inits |-> 0]              \* calls of the init hook

NoHook == [fn |-> "none", arg |-> Undefined, ret |-> Undefined, rendered |-> <<>>]

\* Object.assign( { cache: false, eleventyLibraryOverride: undefined,
\* globals: {} }, options || {} )
MergedOptions(options) ==
  [cache |-> IF options.cache = NoEntry THEN "false" ELSE options.cache,
   eleventyLibraryOverride |-> options.eleventyLibraryOverride,
   globals |-> options.globals]

\* options.eleventyLibraryOverride is truthy
OverrideGiven(options) == options.eleventyLibraryOverride \notin {NoEntry, "null"}

\* An engine chosen without looking at the override.
ChooseEngine_AlwaysCreate(options) ==
  [edge |-> "created", created |-> <<[cache |-> options.cache]>>]

\* options.eleventyLibraryOverride || Edge.create( { cache: options.cache } )
ChooseEngine(options) ==
  IF OverrideGiven(options)
  THEN [edge |-> options.eleventyLibraryOverride, created |-> <<>>]
  ELSE [edge |-> "created", created |-> <<[cache |-> options.cache]>>]

\* One bridging loop that leaves a name alone once it is bound.
Bridge_KeepFirst(table, registry) ==
  [n \in Names |-> IF table[n] # NoEntry THEN table[n] ELSE registry[n]]

\* for ( let [ name, callback ] of Object.entries( registry ) )
\*   edge.global( name, callback )
Bridge(table, registry) ==
  [n \in Names |-> IF registry[n] # NoEntry THEN registry[n] ELSE table[n]]

\* The four loops with the one over options.globals first.
BridgeAll_GlobalsFirst(table, config, options) ==
  Bridge(Bridge(Bridge(Bridge(table, options.globals), config.filters), config.shortcodes),
         config.pairedShortcodes)

\* The four loops, in the order of the code.
BridgeAll(table, config, options) ==
  Bridge(Bridge(Bridge(Bridge(table, config.filters), config.shortcodes),
                config.pairedShortcodes), options.globals)

\* ---------------------------------------------------- error objects
Errors == {"e1", "e2", "e3"}
NoError == "none"

\* The fields of error object e before the plugin has touched it.
FreshError(e) == [cause |-> NoError, message |-> "message of " \o e]

\* reThrow that re-raises without attaching the original error.
PatchedReThrow_NoCause(objs, error, raised) == [thrown |-> raised, objs |-> objs]

\* reThrow that attaches the original error without comparing identities.
PatchedReThrow_AlwaysCause(objs, error, raised) ==
  IF raised = NoError
  THEN [thrown |-> NoError, objs |-> objs]
  ELSE [thrown |-> raised, objs |-> [objs EXCEPT ![raised].cause = error]]

\* Template.prototype.reThrow: the engine's reThrow has raised `raised` (or has
\* returned, NoError); the object the patch raises and the error objects after.
PatchedReThrow(objs, error, raised) ==
  IF raised = NoError
  THEN [thrown |-> NoError, objs |-> objs]
  ELSE [thrown |-> raised,
        objs |-> IF raised # error THEN [objs EXCEPT ![raised].cause = error] ELSE objs]

\* ------------------------------------------------- render entry points
\* renderRaw: this.__pendingPromises = []
RenderRawSetup(list) == <<>>

\* render: if ( !this.__pendingPromises ) this.__pendingPromises = []
RenderSetup(list) == IF list = Absent THEN <<>> ELSE list

\* An entry point that returns the engine's result as it is.
ResultIsThenable_Never(mode) == FALSE

\* An entry point that chains the resolver on whatever the engine returns.
ResultIsThenable_Always(mode) == TRUE

\* result && typeof result.then === "function": the engine's asynchronous
\* mode returns a promise, its synchronous mode a string.
ResultIsThenable(mode) == mode = "async"

Init ==
  /\ pendingPromises = [t \in Templates |-> Absent]
  /\ promises = [p \in Promises |-> [st |-> "unborn", val |-> Undefined]]
  /\ settleOrder = <<>>
  /\ inv = [i \in Invocations |-> IdleInv]
  /\ running = "none"
  /\ errorObjs = [e \in Errors |-> FreshError(e)]
  /\ lastReThrow = [called |-> FALSE, error |-> NoError, raised |-> NoError,
                    thrown |-> NoError, before |-> [e \in Errors |-> FreshError(e)]]
  /\ lastCall = NoCall
  /\ host = NoHost
  /\ plugin = NoPlugin
  /\ lastHook = NoHook

\* The engine may run code of invocation i: nothing else runs during a
\* synchronous render, and an asynchronous one runs between other steps.
MayRun(i) ==
  /\ inv[i].pc = "running"
  /\ running = IF inv[i].mode = "sync" THEN i ELSE "none"

\* Invocations and Template objects are interchangeable, so the renders are
\* numbered in the order they start and the Template objects in the order
\* they are first rendered.
InOrder(i, t) ==
  /\ i = "i2" => inv["i1"].pc # "idle"
  /\ t = "tB" => \E j \in Invocations : inv[j].tmpl = "tA"

Enter(i, t, entry, mode, list) ==
  /\ inv[i].pc = "idle"
  /\ running = "none"
  /\ InOrder(i, t)
  /\ pendingPromises' = [pendingPromises EXCEPT ![t] = list]
  /\ inv' = [inv EXCEPT ![i] = [IdleInv EXCEPT !.pc = "running", !.entry = entry,
                                  !.mode = mode, !.tmpl = t, !.listAtCall = list,
                                  !.underlying = "pending"]]
  /\ running' = IF mode = "sync" THEN i ELSE "none"
  /\ UNCHANGED <<promises, settleOrder, errorVars, callVars, pluginVars>>

\* Template.prototype.renderRaw up to the call of the engine's renderRaw
CallRenderRaw(i, t, mode) ==
  Enter(i, t, "renderRaw", mode, RenderRawSetup(pendingPromises[t]))

\* Template.prototype.render up to the call of the engine's render
CallRender(i, t, mode) ==
  Enter(i, t, "render", mode, RenderSetup(pendingPromises[t]))

\* The interpolations evaluated so far, by all renders.
RECURSIVE ItemCount(_)
ItemCount(S) ==
  IF S = {} THEN 0
  ELSE LET i == CHOOSE x \in S : TRUE IN Len(inv[i].items) + ItemCount(S \ {i})

\* The promise object the next async call of a template creates.
Unborn == {p \in Promises : promises[p].st = "unborn"}
FreshPromise == CHOOSE p \in Unborn : \A q \in Unborn : p <= q

EscapedInputs ==
  {Null, Undefined, Str("<"), Str(Token(0))}
    \cup (IF Unborn = {} THEN {} ELSE {PromiseObj(FreshPromise)})

RawInputs == {Str("<")} \cup (IF Unborn = {} THEN {} ELSE {PromiseObj(FreshPromise)})

Born(v) ==
  IF v.t = "promise"
  THEN [promises EXCEPT ![v.p] = [st |-> "pending", val |-> Undefined]]
  ELSE promises

\* The engine evaluates an escaped interpolation {{ v }}: template.escape( v )
Interpolate(i, v) ==
  /\ MayRun(i)
  /\ ItemCount(Invocations) < MaxItems
  /\ v \in EscapedInputs
  /\ LET r == Escape(pendingPromises[inv[i].tmpl], v)
     IN /\ pendingPromises' = [pendingPromises EXCEPT ![inv[i].tmpl] = r.list]
        /\ inv' = [inv EXCEPT ![i].items = Append(@, [raw |-> FALSE, v |-> v, frag |-> r.out,
                                                     delegated |-> r.delegated]),
                              ![i].out = Append(@, r.out)]
  /\ promises' = Born(v)
  /\ UNCHANGED <<settleOrder, running, errorVars, callVars, pluginVars>>

\* The engine evaluates a raw interpolation {{{ v }}}: the value is inserted
\* as it is, without a call of template.escape.
InterpolateRaw(i, v) ==
  /\ MayRun(i)
  /\ ItemCount(Invocations) < MaxItems
  /\ v \in RawInputs
  /\ inv' = [inv EXCEPT ![i].items = Append(@, [raw |-> TRUE, v |-> v, frag |-> ToStr(v),
                                                     delegated |-> FALSE]),
                        ![i].out = Append(@, ToStr(v))]
  /\ promises' = Born(v)
  /\ UNCHANGED <<pendingPromises, settleOrder, running, errorVars, callVars, pluginVars>>

\* The engine's render produces its output: in synchronous mode the patched
\* entry point returns the string itself; in asynchronous mode the engine's
\* promise fulfils and the callback chained on it is due.
EngineDone(i) ==
  /\ MayRun(i)
  /\ inv' = [inv EXCEPT ![i].underlying = IF inv[i].mode = "async" THEN "fulfilled" ELSE "string",
                        ![i].pc = IF ResultIsThenable(inv[i].mode) THEN "rendered"
                                  ELSE IF inv[i].mode = "sync" THEN "returned"
                                  ELSE "fulfilled"]
  /\ running' = "none"
  /\ UNCHANGED <<pendingPromises, promises, settleOrder, errorVars, callVars, pluginVars>>

\* The engine's render fails: a synchronous render throws, an asynchronous
\* one rejects, and so does the promise chained on it.
EngineFail(i) ==
  /\ MayRun(i)
  /\ inv' = [inv EXCEPT ![i].underlying = "rejected", ![i].pc = "rejected",
                        ![i].reason = EngineError]
  /\ running' = "none"
  /\ UNCHANGED <<pendingPromises, promises, settleOrder, errorVars, callVars, pluginVars>>

\* ------------------------------------------------------------ promises
\* The values an async callable's promise resolves to.
ResolvedValues == {Null, Str("<"), Str(Token(0))}

\* A pending promise fulfils.
Fulfil(p, v) ==
  /\ running = "none"
  /\ promises[p].st = "pending"
  /\ v \in ResolvedValues
  /\ promises' = [promises EXCEPT ![p] = [st |-> "fulfilled", val |-> v]]
  /\ settleOrder' = Append(settleOrder, p)
  /\ UNCHANGED <<pendingPromises, inv, running, errorVars, callVars, pluginVars>>

\* Promise.all: the rejection of a promise of the batch, when it is the first
\* one Promise.all sees, settles the batch.
SeenBy(r, p) ==
  IF r.pc = "awaiting" /\ r.firstRej = NoPromise /\ (\E k \in DOMAIN r.batch : r.batch[k] = p)
  THEN [r EXCEPT !.firstRej = p]
  ELSE r

\* A pending promise rejects.
Reject(p) ==
  /\ running = "none"
  /\ promises[p].st = "pending"
  /\ promises' = [promises EXCEPT ![p] = [st |-> "rejected", val |-> Reason(p)]]
  /\ settleOrder' = Append(settleOrder, p)
  /\ inv' = [i \in Invocations |-> SeenBy(inv[i], p)]
  /\ UNCHANGED <<pendingPromises, running, errorVars, callVars, pluginVars>>

\* Promise.all( batch ) called with promises that have rejected already: their
\* reactions run in the order of the batch, so the first of them settles it.
FirstRejected(batch) ==
  LET rej == {k \in DOMAIN batch : promises[batch[k]].st = "rejected"}
  IN IF rej = {} THEN NoPromise
     ELSE batch[CHOOSE k \in rej : \A j \in rej : k <= j]

\* The values of the batch in the order its promises settled.
PromiseAllValues_SettlementOrder(batch) ==
  LET InBatch(p) == \E k \in DOMAIN batch : batch[k] = p
      order == SelectSeq(settleOrder, InBatch)
  IN [k \in DOMAIN batch |-> promises[order[k]].val]

\* await Promise.all( batch ), all fulfilled: the values in the order of the batch
PromiseAllValues(batch) == [k \in DOMAIN batch |-> promises[batch[k]].val]

\* Promise.allSettled in place of Promise.all: resumes once nothing is pending.
PromiseAllFulfils_AllSettled(batch, firstRej) ==
  \A k \in DOMAIN batch : promises[batch[k]].st # "pending"

\* A Promise.all whose promise never fulfils.
PromiseAllFulfils_Never(batch, firstRej) == FALSE

\* Promise.all( batch ) fulfils: no rejection has settled it and every promise
\* of the batch is fulfilled.
PromiseAllFulfils(batch, firstRej) ==
  /\ firstRej = NoPromise
  /\ \A k \in DOMAIN batch : promises[batch[k]].st = "fulfilled"

\* The resolver returns or suspends, as r says.
Proceed(i, r, pre) ==
  inv' = [inv EXCEPT ![i] =
    IF r.kind = "return"
    THEN [@ EXCEPT !.pc = "fulfilled", !.out = r.out, !.preOut = pre,
                   !.resolved = TRUE, !.resolverRet = r.out]
    ELSE [@ EXCEPT !.pc = "awaiting", !.out = r.out, !.preOut = pre, !.batch = r.batch,
                   !.rounds = @ + 1, !.firstRej = FirstRejected(r.batch),
                   !.settledAtAwait = Len(settleOrder)]]

\* result.then( output => resolveAsyncPlaceholders( this, output ) ): the
\* callback runs and the resolver is entered.
ThenCallback(i) ==
  /\ running = "none"
  /\ inv[i].pc = "rendered"
  /\ Proceed(i, ResolveEntry(pendingPromises[inv[i].tmpl], inv[i].out), inv[i].preOut)
  /\ UNCHANGED <<pendingPromises, promises, settleOrder, running, errorVars, callVars, pluginVars>>

\* The resolver resumes after its await with every promise of the batch fulfilled.
AwaitOk(i) ==
  /\ running = "none"
  /\ inv[i].pc = "awaiting"
  /\ PromiseAllFulfils(inv[i].batch, inv[i].firstRej)
  /\ pendingPromises' = [pendingPromises EXCEPT ![inv[i].tmpl] = <<>>]
  /\ Proceed(i, ResolveResume(inv[i].out, PromiseAllValues(inv[i].batch)), inv[i].out)
  /\ UNCHANGED <<promises, settleOrder, running, errorVars, callVars, pluginVars>>

\* The resolver's await throws the rejection Promise.all settled with: the
\* render's promise rejects with it, and the list is left as it is.
AwaitFail(i) ==
  /\ running = "none"
  /\ inv[i].pc = "awaiting"
  /\ inv[i].firstRej # NoPromise
  /\ inv' = [inv EXCEPT ![i].pc = "rejected",
                        ![i].reason = promises[inv[i].firstRej].val,
                        ![i].rejSeen = {inv[i].batch[k] : k \in
                             {j \in DOMAIN inv[i].batch : promises[inv[i].batch[j]].st = "rejected"}}]
  /\ UNCHANGED <<pendingPromises, promises, settleOrder, running, errorVars, callVars, pluginVars>>

Next ==
  \/ \E i \in Invocations, t \in Templates, m \in {"sync", "async"} : CallRenderRaw(i, t, m)
  \/ \E i \in Invocations, t \in Templates, m \in {"sync", "async"} : CallRender(i, t, m)
  \/ \E i \in Invocations, v \in EscapedInputs : Interpolate(i, v)
  \/ \E i \in Invocations, v \in RawInputs : InterpolateRaw(i, v)
  \/ \E i \in Invocations : EngineDone(i)
  \/ \E i \in Invocations : EngineFail(i)
  \/ \E p \in Promises, v \in ResolvedValues : Fulfil(p, v)
  \/ \E p \in Promises : Reject(p)
  \/ \E i \in Invocations : ThenCallback(i)
  \/ \E i \in Invocations : AwaitOk(i)
  \/ \E i \in Invocations : AwaitFail(i)

Spec == Init /\ [][Next]_vars

\* One render, on a Template object that no other render uses.
NextOne ==
  \/ \E m \in {"sync", "async"} : CallRenderRaw("i1", "tA", m)
  \/ \E m \in {"sync", "async"} : CallRender("i1", "tA", m)
  \/ \E v \in EscapedInputs : Interpolate("i1", v)
  \/ \E v \in RawInputs : InterpolateRaw("i1", v)
  \/ EngineDone("i1")
  \/ EngineFail("i1")
  \/ \E p \in Promises, v \in ResolvedValues : Fulfil(p, v)
  \/ \E p \in Promises : Reject(p)
  \/ ThenCallback("i1")
  \/ AwaitOk("i1")
  \/ AwaitFail("i1")

SpecOne == Init /\ [][NextOne]_vars

\* A pending promise settles.
Settle(p) == (\E v \in ResolvedValues : Fulfil(p, v)) \/ Reject(p)

\* One asynchronous renderRaw whose engine pass succeeds, so that the resolver
\* is entered.
NextResolver ==
  \/ CallRenderRaw("i1", "tA", "async")
  \/ \E v \in EscapedInputs : Interpolate("i1", v)
  \/ EngineDone("i1")
  \/ \E p \in Promises, v \in ResolvedValues : Fulfil(p, v)
  \/ \E p \in Promises : Reject(p)
  \/ ThenCallback("i1")
  \/ AwaitOk("i1")
  \/ AwaitFail("i1")

\* One render under the scheduling of the event loop: the continuation of an
\* await runs once the awaited promise has settled (the job queue is drained),
\* and, as a hypothesis on the callables of the templates, every promise they
\* return settles.
SpecResolverFair ==
  /\ Init /\ [][NextResolver]_vars
  /\ WF_vars(AwaitOk("i1"))
  /\ WF_vars(AwaitFail("i1"))
  /\ \A p \in Promises : WF_vars(Settle(p))

\* ------------------------------------------------------------ reThrow
\* The engine calls template.reThrow( error, filename, lineNumber ); its own
\* normalization raises the error itself or another error object (or, against
\* its contract, returns).
ReThrow(error, raised) ==
  /\ error \in Errors
  /\ raised \in Errors \cup {NoError}
  /\ LET r == PatchedReThrow(errorObjs, error, raised)
     IN /\ errorObjs' = r.objs
        /\ lastReThrow' = [called |-> TRUE, error |-> error, raised |-> raised,
                           thrown |-> r.thrown, before |-> errorObjs]
  /\ UNCHANGED <<renderVars, callVars, pluginVars>>

NextReThrow == \E error \in Errors, raised \in Errors \cup {NoError} : ReThrow(error, raised)

SpecReThrow == Init /\ [][NextReThrow]_vars

\* ------------------------------------------------------ direct calls
\* The pending lists a Template object can carry when one of the patched
\* functions is called on it: none, or up to two recorded promises.
CallLists ==
  {Absent, <<>>} \cup {<<p>> : p \in Promises} \cup {<<p, q>> : p, q \in Promises}

\* The chunks of an output string: text, and token text.
CallChunks == {"<", "text", Token(0), Token(1)}

\* The output strings handed to the resolver.
CallOutputs == {<<>>} \cup {<<c>> : c \in CallChunks} \cup {<<c, d>> : c, d \in CallChunks}

\* The values handed to escape.
CallInputs ==
  {Null, Undefined, Str("<"), Str("text"), Str(Token(0)), NumberValue, ThenableFn}
    \cup {PromiseObj(p) : p \in Promises} \cup {ThenableObj(p) : p \in Promises}

\* template.escape( input ) on a Template object whose list is `list`
CallEscape(list, input) ==
  /\ list \in CallLists
  /\ input \in CallInputs
  /\ LET r == Escape(list, input)
     IN lastCall' = [NoCall EXCEPT !.fn = "escape", !.list = list, !.input = input,
                                   !.ret = r.out, !.kind = "return",
                                   !.listAfter = r.list, !.delegated = r.delegated]
  /\ UNCHANGED <<renderVars, errorVars, pluginVars>>

\* resolveAsyncPlaceholders( template, output ) up to its return or its await,
\* on a Template object whose list is `list`
CallResolver(list, output) ==
  /\ list \in CallLists
  /\ output \in CallOutputs
  /\ LET r == ResolveEntry(list, output)
     IN lastCall' = [NoCall EXCEPT !.fn = "resolve", !.list = list, !.output = output,
                                   !.retOut = r.out, !.kind = r.kind,
                                   !.listAfter = r.list]
  /\ UNCHANGED <<renderVars, errorVars, pluginVars>>

\* The arrays await Promise.all( ... ) can give: up to two settled values.
CallValues == {Null, Undefined, Str("<"), Str(Token(0))}
CallResolved == {<<>>} \cup {<<v>> : v \in CallValues} \cup {<<v, w>> : v, w \in CallValues}

\* output.replace( ASYNC_PATTERN, ... ) with the array `resolved`
CallSubstitute(output, resolved) ==
  /\ output \in CallOutputs
  /\ resolved \in CallResolved
  /\ lastCall' = [NoCall EXCEPT !.fn = "substitute", !.output = output,
                                !.resolved = resolved, !.kind = "return",
                                !.retOut = Substitute(output, resolved)]
  /\ UNCHANGED <<renderVars, errorVars, pluginVars>>

NextCalls ==
  \/ \E list \in CallLists, input \in CallInputs : CallEscape(list, input)
  \/ \E list \in CallLists, output \in CallOutputs : CallResolver(list, output)
  \/ \E output \in CallOutputs, resolved \in CallResolved : CallSubstitute(output, resolved)

SpecCalls == Init /\ [][NextCalls]_vars

\* ------------------------------------------------ plugin registration
\* edgeJsPlugin( eleventyConfig, options ): versionCheck throws on a host that
\* is too old; otherwise the options are merged, the format is added, the
\* engine is chosen, the four registries are bridged and the extension is
\* registered.
EdgeJsPlugin(config, options) ==
  /\ plugin.status = "none"
  /\ config \in HostConfigs
  /\ options \in OptionArgs
  /\ host' = [called |-> TRUE, config |-> config, options |-> options]
  /\ plugin' =
       IF ~config.compatible
       THEN [plugin EXCEPT !.status = "threw"]
       ELSE LET merged == MergedOptions(options)
                chosen == ChooseEngine(merged)
            IN [plugin EXCEPT
                  !.status = "registered",
                  !.options = merged,
                  !.formats = @ \cup {"edge"},
                  !.created = chosen.created,
                  !.edge = chosen.edge,
                  !.globals[chosen.edge] = BridgeAll(@, config, merged),
                  !.extensions = @ \cup {"edge"}]
  /\ UNCHANGED <<renderVars, errorVars, callVars, lastHook>>

\* this.config.directories?.includes: no includes directory, or one
IncludesDirs == {NoEntry, "_includes"}

\* The extension's init hook.
InitHook(includesDir) ==
  /\ "edge" \in plugin.extensions
  /\ plugin.inits < MaxInits
  /\ includesDir \in IncludesDirs
  /\ plugin' = [plugin EXCEPT
                  !.inits = @ + 1,
                  !.mounts = IF includesDir # NoEntry
                             THEN Append(@, [engine |-> plugin.edge, dir |-> includesDir])
                             ELSE @]
  /\ lastHook' = [NoHook EXCEPT !.fn = "init"]
  /\ UNCHANGED <<renderVars, errorVars, callVars, host>>

\* Template sources and front-matter permalinks handed to the hooks.
Sources == {Str("{{ title }}"), Str("/{{ slug }}/")}
PermalinkFn == [t |-> "function", s |-> "permalink function", p |-> 0]
False == [t |-> "boolean", s |-> "false", p |-> 0]
PermalinkContents == Sources \cup {PermalinkFn, False}
DataContexts == {"data1", "data2"}

\* async ( data ) => { return edge.renderRaw( contents, data ); }
RenderFn(edge, contents) ==
  [t |-> "renderFn", s |-> contents.s, p |-> 0, edge |-> edge]

\* A permalink hook that wraps whatever it is given.
PermalinkCompile_AlwaysWrap(edge, contents) == RenderFn(edge, contents)

\* compile: ( str ) => ...
Compile(edge, str) == RenderFn(edge, str)

\* compileOptions.permalink: ( contents ) => ...
PermalinkCompile(edge, contents) ==
  IF TypeOf(contents) = "string" THEN RenderFn(edge, contents) ELSE contents

\* What edge.renderRaw( contents, data ) of an engine returns.
RenderRawResult(edge, contents, data) ==
  [t |-> "renderRaw result", s |-> contents, p |-> 0, edge |-> edge, data |-> data]

\* The host calls the compile hook.
CallCompile(str) ==
  /\ "edge" \in plugin.extensions
  /\ str \in Sources
  /\ lastHook' = [NoHook EXCEPT !.fn = "compile", !.arg = str,
                                !.ret = Compile(plugin.edge, str)]
  /\ UNCHANGED <<renderVars, errorVars, callVars, host, plugin>>

\* The host calls the permalink hook.
CallPermalink(contents) ==
  /\ "edge" \in plugin.extensions
  /\ contents \in PermalinkContents
  /\ lastHook' = [NoHook EXCEPT !.fn = "permalink", !.arg = contents,
                                !.ret = PermalinkCompile(plugin.edge, contents)]
  /\ UNCHANGED <<renderVars, errorVars, callVars, host, plugin>>

\* The host calls the function a hook returned.
CallRenderFn(data) ==
  /\ lastHook.fn \in {"compile", "permalink"}
  /\ lastHook.ret.t = "renderFn"
  /\ data \in DataContexts
  /\ lastHook' = [fn |-> "renderFn", arg |-> lastHook.ret,
                  ret |-> RenderRawResult(lastHook.ret.edge, lastHook.ret.s, data),
                  rendered |-> <<[engine |-> lastHook.ret.edge, contents |-> lastHook.ret.s,
                                  data |-> data]>>]
  /\ UNCHANGED <<renderVars, errorVars, callVars, host, plugin>>

NextPlugin ==
  \/ \E config \in HostConfigs, options \in OptionArgs : EdgeJsPlugin(config, options)
  \/ \E includesDir \in IncludesDirs : InitHook(includesDir)
  \/ \E str \in Sources : CallCompile(str)
  \/ \E contents \in PermalinkContents : CallPermalink(contents)
  \/ \E data \in DataContexts : CallRenderFn(data)

SpecPlugin == Init /\ [][NextPlugin]_vars

\* ============================================================ claims
\* What the escape interceptor returns for a settled value that is not a
\* thenable: nothing for a nullish value, its HTML encoding otherwise.
EscapedForm(val) == IF IsNullish(val) THEN "" ELSE HtmlEncode(ToStr(val))

\* Interpolation k of invocation i passed a promise to escape.
DeferredAt(i, k) == ~inv[i].items[k].raw /\ inv[i].items[k].v.t = "promise"

\* The promises invocation i passed to escape.
PromisesOf(i) == {inv[i].items[k].v.p : k \in {j \in DOMAIN inv[i].items : DeferredAt(i, j)}}

\* No other render invocation has used the Template object of invocation i.
Alone(i) == \A j \in Invocations \ {i} : inv[j].tmpl # inv[i].tmpl

\* The promise whose value the resolver put at position k (NoPromise: none).
UsedAt(i, k) ==
  IF IsToken(inv[i].preOut[k]) /\ ParseIdx(inv[i].preOut[k]) + 1 \in DOMAIN inv[i].batch
  THEN inv[i].batch[ParseIdx(inv[i].preOut[k]) + 1]
  ELSE NoPromise

\* C1 (as claimed): when a render's promise fulfils, its string holds, at the
\* position of every promise passed to escape, the escaped form of the value
\* that promise resolved to, and holds no sentinel token.
C1_FinalOutputResolved ==
  \A i \in Invocations :
    inv[i].pc = "fulfilled" =>
      \A k \in DOMAIN inv[i].items :
        DeferredAt(i, k) =>
          /\ ~HasToken(inv[i].out)
          /\ promises[inv[i].items[k].v.p].st = "fulfilled"
          /\ inv[i].out[k] = EscapedForm(promises[inv[i].items[k].v.p].val)

\* C2: the resolver replaces the token with index n by the escaped value of
\* the promise at index n of the batch it awaited, whatever the order in which
\* the promises settled; a render that has its Template object to itself so
\* shows every resolved value at the position of its own interpolation.
C2_IndexOrderSubstitution ==
  \A i \in Invocations :
    /\ \A k \in DOMAIN inv[i].preOut :
         UsedAt(i, k) # NoPromise =>
           inv[i].out[k] = EscapedForm(promises[UsedAt(i, k)].val)
    /\ (inv[i].pc = "fulfilled" /\ Alone(i)) =>
         \A k \in DOMAIN inv[i].items :
           DeferredAt(i, k) =>
             /\ promises[inv[i].items[k].v.p].st = "fulfilled"
             /\ inv[i].out[k] = EscapedForm(promises[inv[i].items[k].v.p].val)

\* Two promises settled in the reverse of their source order and the output
\* shows their values in source order.
C2_Witness ==
  \E i \in Invocations :
    /\ inv[i].pc = "fulfilled"
    /\ inv[i].batch = <<1, 2>>
    /\ settleOrder = <<2, 1>>
    /\ promises[1].val = Str("<")
    /\ promises[2].val = Null
    /\ inv[i].preOut = <<Token(0), Token(1)>>
    /\ inv[i].out = <<"&lt;", "">>

\* C3: escape returns the empty string for null and for undefined, never the
\* text "null" or "undefined", and without calling the engine's escape.
C3_NullishIsEmpty ==
  \A i \in Invocations :
    \A k \in DOMAIN inv[i].items :
      (~inv[i].items[k].raw /\ IsNullish(inv[i].items[k].v)) =>
        /\ inv[i].items[k].frag = ""
        /\ inv[i].items[k].frag \notin {"null", "undefined"}
        /\ ~inv[i].items[k].delegated

\* A render has passed both null and undefined to escape.
C3_Witness ==
  \E i \in Invocations :
    /\ Len(inv[i].items) = 2
    /\ inv[i].items[1].v = Null /\ ~inv[i].items[1].raw
    /\ inv[i].items[2].v = Undefined /\ ~inv[i].items[2].raw
    /\ inv[i].out = <<"", "">>

\* C4 (as claimed): every token a render emitted is substituted with the value
\* of a promise that this same render recorded.
C4_OwnPromisesOnly ==
  \A i \in Invocations :
    \A k \in DOMAIN inv[i].preOut :
      (DeferredAt(i, k) /\ UsedAt(i, k) # NoPromise) => UsedAt(i, k) \in PromisesOf(i)

\* C5 (as claimed): when an entry point invokes the engine's render, the
\* pending list of its Template object is the empty sequence.
C5_ListEmptyAtEngineCall ==
  \A i \in Invocations : inv[i].pc # "idle" => inv[i].listAtCall = <<>>

\* C8 (as claimed): a render whose resolver met rejected promises rejects with
\* the reason of each of them, and a fulfilled render met none.
C8_RejectsWithThatReason ==
  \A i \in Invocations :
    /\ inv[i].pc = "rejected" => \A p \in inv[i].rejSeen : inv[i].reason = Reason(p)
    /\ inv[i].pc = "fulfilled" =>
         \A k \in DOMAIN inv[i].batch : promises[inv[i].batch[k]].st = "fulfilled"

\* The place of a settled promise in the order of settlement.
SettledAs(p) == CHOOSE n \in DOMAIN settleOrder : settleOrder[n] = p

\* The rejection Promise.all observes first: the lowest-index promise of the
\* batch that had rejected when the resolver began to await, and otherwise the
\* promise of the batch that rejected first.
FirstObserved(i) ==
  LET b == inv[i].batch
      rej == {k \in DOMAIN b : promises[b[k]].st = "rejected"}
      early == {k \in rej : SettledAs(b[k]) <= inv[i].settledAtAwait}
  IN IF early # {}
     THEN b[CHOOSE k \in early : \A j \in early : k <= j]
     ELSE b[CHOOSE k \in rej : \A j \in rej : SettledAs(b[k]) <= SettledAs(b[j])]

\* C8 (amended): a render whose resolver awaited a batch with a rejected
\* promise never fulfils; it rejects, after that one await, with the reason of
\* the rejection Promise.all observed first.
C8_RejectsWithFirstObserved ==
  \A i \in Invocations :
    /\ inv[i].pc = "fulfilled" =>
         \A k \in DOMAIN inv[i].batch : promises[inv[i].batch[k]].st = "fulfilled"
    /\ (inv[i].pc = "rejected" /\ inv[i].underlying = "fulfilled") =>
         /\ inv[i].rejSeen # {}
         /\ inv[i].reason = Reason(FirstObserved(i))
         /\ inv[i].rounds = 1
         /\ ~inv[i].resolved

\* Two promises of one batch rejected, the second of them first.
C8_Witness ==
  \E i \in Invocations :
    /\ inv[i].pc = "rejected"
    /\ inv[i].batch = <<1, 2>>
    /\ inv[i].rejSeen = {1, 2}
    /\ inv[i].settledAtAwait = 0
    /\ settleOrder = <<2, 1>>
    /\ inv[i].reason = Reason(2)

\* C9 (as claimed): a deferred value is inserted verbatim at a raw
\* interpolation and HTML-encoded at an escaped one.
C9_RawOrEscapedByMode ==
  \A i \in Invocations :
    inv[i].pc = "fulfilled" =>
      \A k \in DOMAIN inv[i].items :
        LET it == inv[i].items[k]
        IN (it.v.t = "promise" /\ promises[it.v.p].st = "fulfilled"
              /\ ~IsNullish(promises[it.v.p].val)) =>
             inv[i].out[k] = IF it.raw THEN ToStr(promises[it.v.p].val)
                             ELSE HtmlEncode(ToStr(promises[it.v.p].val))

\* C10: the promise of an asynchronous render settles only once the
\* engine's promise has settled, and fulfils only once the resolver has
\* returned, with the string the resolver returned.
C10_SettlesAfterResolver ==
  \A i \in Invocations :
    inv[i].mode = "async" =>
      /\ inv[i].pc \in {"fulfilled", "rejected"} => inv[i].underlying \in {"fulfilled", "rejected"}
      /\ inv[i].pc = "fulfilled" =>
           /\ inv[i].underlying = "fulfilled"
           /\ inv[i].resolved
           /\ inv[i].out = inv[i].resolverRet
      /\ (inv[i].pc = "rejected" /\ inv[i].underlying = "fulfilled") => inv[i].rounds >= 1

\* An asynchronous render fulfilled with a string the resolver changed.
C10_Witness ==
  \E i \in Invocations :
    /\ inv[i].mode = "async"
    /\ inv[i].pc = "fulfilled"
    /\ inv[i].rounds = 1
    /\ inv[i].preOut = <<Token(0)>>
    /\ inv[i].out = <<"&lt;">>

\* C6: when the engine's normalization raises an object other than the
\* original error, reThrow raises that object and its cause is the original.
C6_CauseIsOriginal ==
  (lastReThrow.called /\ lastReThrow.raised # NoError
     /\ lastReThrow.raised # lastReThrow.error) =>
    /\ lastReThrow.thrown = lastReThrow.raised
    /\ errorObjs[lastReThrow.raised].cause = lastReThrow.error

\* A wrapper that carried another cause has been raised with the new original.
C6_Witness ==
  /\ lastReThrow.called
  /\ lastReThrow.raised = "e2"
  /\ lastReThrow.error = "e1"
  /\ lastReThrow.before["e2"].cause = "e3"
  /\ errorObjs["e2"].cause = "e1"

\* C7: reThrow raises exactly the object the normalization raised, and when
\* that is the original error no field of any error object is changed.
C7_NeverSwallows ==
  (lastReThrow.called /\ lastReThrow.raised # NoError) =>
    /\ lastReThrow.thrown = lastReThrow.raised
    /\ lastReThrow.raised = lastReThrow.error => errorObjs = lastReThrow.before

\* An error that already has a cause has been re-raised as it is.
C7_Witness ==
  /\ lastReThrow.called
  /\ lastReThrow.raised = "e1"
  /\ lastReThrow.error = "e1"
  /\ lastReThrow.thrown = "e1"
  /\ errorObjs["e1"].cause = "e2"

\* C11: called with a list that is absent or empty, the resolver returns, at
\* once, the very string it was given, and the list is as it was.
C11_EmptyListIsIdentity ==
  (lastCall.fn = "resolve" /\ (lastCall.list = Absent \/ lastCall.list = <<>>)) =>
    /\ lastCall.kind = "return"
    /\ lastCall.retOut = lastCall.output
    /\ lastCall.listAfter = lastCall.list

\* The resolver was called with no list and a string that holds token text.
C11_Witness ==
  /\ lastCall.fn = "resolve"
  /\ lastCall.list = Absent
  /\ lastCall.output = <<Token(0), "<">>
  /\ lastCall.retOut = <<Token(0), "<">>
  /\ lastCall.listAfter = Absent

\* C12: given a promise object, escape returns at once, without delegating to
\* the engine's escape: the list after the call is the list before it (the
\* empty list when there was none) with the promise appended, and the
\* fragment returned is the token whose index is the place of that promise.
C12_PromiseRecordedUnderItsIndex ==
  (lastCall.fn = "escape" /\ lastCall.input.t = "promise") =>
    LET before == IF lastCall.list = Absent THEN <<>> ELSE lastCall.list
        after == lastCall.listAfter
    IN /\ lastCall.kind = "return"
       /\ ~lastCall.delegated
       /\ after # Absent
       /\ Len(after) = Len(before) + 1
       /\ SubSeq(after, 1, Len(before)) = before
       /\ after[Len(after)] = lastCall.input.p
       /\ IsToken(lastCall.ret)
       /\ ParseIdx(lastCall.ret) = Len(after) - 1
       /\ after[ParseIdx(lastCall.ret) + 1] = lastCall.input.p

\* escape was given a promise on a Template object that had no list.
C12_Witness ==
  /\ lastCall.fn = "escape"
  /\ lastCall.list = Absent
  /\ lastCall.input = PromiseObj(2)
  /\ lastCall.listAfter = <<2>>
  /\ lastCall.ret = Token(0)

\* The global table of the engine the plugin uses.
EdgeGlobals == plugin.globals[plugin.edge]

\* The three registries of the host, in the order the plugin reads them.
HostRegistries == <<host.config.filters, host.config.shortcodes, host.config.pairedShortcodes>>

\* C13 (as claimed): once the plugin is registered, every name of every host
\* registry is bound, in the engine's global table, to the callable that
\* registry holds under the name.
C13_EveryCallableBridged ==
  plugin.status = "registered" =>
    \A c \in DOMAIN HostRegistries, n \in Names :
      HostRegistries[c][n] # NoEntry => EdgeGlobals[n] = HostRegistries[c][n]

\* C13 (amended): once the plugin is registered, every name of a host registry
\* that options.globals does not hold is bound, in the engine's global table,
\* to the callable of the last registry (filters, shortcodes, paired
\* shortcodes) that holds the name; so a name held by one registry only is
\* bound to the very callable registered there.
C13_LastCategoryBridged ==
  plugin.status = "registered" =>
    \A c \in DOMAIN HostRegistries, n \in Names :
      (/\ HostRegistries[c][n] # NoEntry
       /\ plugin.options.globals[n] = NoEntry
       /\ \A d \in DOMAIN HostRegistries : d > c => HostRegistries[d][n] = NoEntry)
        => EdgeGlobals[n] = HostRegistries[c][n]

\* One name is a filter and a paired shortcode, another a shortcode only.
C13_Witness ==
  /\ plugin.status = "registered"
  /\ host.config.filters["icon"] = "filter:icon"
  /\ host.config.shortcodes["icon"] = NoEntry
  /\ host.config.pairedShortcodes["icon"] = "paired:icon"
  /\ host.config.shortcodes["year"] = "shortcode:year"
  /\ host.config.filters["year"] = NoEntry
  /\ host.config.pairedShortcodes["year"] = NoEntry
  /\ plugin.options.globals = EmptyTable
  /\ EdgeGlobals = [n \in Names |-> IF n = "icon" THEN "paired:icon" ELSE "shortcode:year"]

\* C14: once the plugin is registered with an engine instance as
\* eleventyLibraryOverride, no engine has been created, and the bridged
\* globals, every mount and every render of a compiled function are on that
\* instance; registered without one, the plugin has created exactly one
\* engine, with the cache option given, or false when none is given, and
\* uses that engine.
C14_OverrideIsTheOnlyEngine ==
  plugin.status = "registered" =>
    IF host.options.eleventyLibraryOverride = "supplied"
    THEN /\ plugin.created = <<>>
         /\ plugin.edge = "supplied"
         /\ plugin.globals["created"] = EmptyTable
         /\ plugin.globals["supplied"] = BridgeAll(EmptyTable, host.config, host.options)
         /\ \A k \in DOMAIN plugin.mounts : plugin.mounts[k].engine = "supplied"
         /\ lastHook.ret.t = "renderFn" => lastHook.ret.edge = "supplied"
         /\ \A k \in DOMAIN lastHook.rendered : lastHook.rendered[k].engine = "supplied"
    ELSE /\ Len(plugin.created) = 1
         /\ plugin.created[1].cache =
              (IF host.options.cache = NoEntry THEN "false" ELSE host.options.cache)
         /\ plugin.edge = "created"
         /\ plugin.globals["supplied"] = EmptyTable
         /\ \A k \in DOMAIN plugin.mounts : plugin.mounts[k].engine = "created"
         /\ \A k \in DOMAIN lastHook.rendered : lastHook.rendered[k].engine = "created"

\* With a supplied engine: a filter is bridged, the includes directory is
\* mounted and a compiled permalink is rendered, all on that engine.
C14_Witness ==
  /\ plugin.status = "registered"
  /\ host.options.eleventyLibraryOverride = "supplied"
  /\ host.options.cache = "true"
  /\ plugin.created = <<>>
  /\ plugin.globals["supplied"]["icon"] = "filter:icon"
  /\ plugin.mounts = <<[engine |-> "supplied", dir |-> "_includes"]>>
  /\ lastHook.fn = "renderFn"
  /\ lastHook.rendered = <<[engine |-> "supplied", contents |-> "/{{ slug }}/", data |-> "data2"]>>

\* Without an override and without a cache option one engine is created.
C14_WitnessCreated ==
  /\ plugin.status = "registered"
  /\ host.options = NoOptions
  /\ plugin.created = <<[cache |-> "false"]>>
  /\ lastHook.fn = "renderFn"
  /\ lastHook.rendered[1].engine = "created"

\* C15: compile and, for a string, the permalink hook return, without
\* rendering anything, a function over the string they were given; that
\* function, called with a data context, makes one renderRaw call of the
\* plugin's engine with that string and that data context and returns its
\* result; for an argument that is not a string the permalink hook returns the
\* argument itself and renders nothing.
C15_HooksRenderTheirSource ==
  /\ (lastHook.fn = "compile" \/ (lastHook.fn = "permalink" /\ lastHook.arg.t = "string")) =>
       /\ lastHook.ret.t = "renderFn"
       /\ lastHook.ret.s = lastHook.arg.s
       /\ lastHook.ret.edge = plugin.edge
       /\ lastHook.rendered = <<>>
  /\ (lastHook.fn = "permalink" /\ lastHook.arg.t # "string") =>
       /\ lastHook.ret = lastHook.arg
       /\ lastHook.rendered = <<>>
  /\ lastHook.fn = "renderFn" =>
       /\ Len(lastHook.rendered) = 1
       /\ lastHook.rendered[1].engine = plugin.edge
       /\ lastHook.rendered[1].contents = lastHook.arg.s
       /\ lastHook.ret = RenderRawResult(plugin.edge, lastHook.arg.s, lastHook.rendered[1].data)

\* The permalink hook was given false and returned it.
C15_Witness ==
  /\ lastHook.fn = "permalink"
  /\ lastHook.arg = False
  /\ lastHook.ret = False
  /\ lastHook.rendered = <<>>

\* A function compiled from a template source was called with a data context.
C15_WitnessRendered ==
  /\ lastHook.fn = "renderFn"
  /\ lastHook.arg.s = "{{ title }}"
  /\ lastHook.ret = RenderRawResult("created", "{{ title }}", "data1")

\* C16 (as claimed): once the promise an asynchronous render returned has
\* settled, fulfilled or rejected, the pending list of its Template object is
\* empty.
C16_ListDrainedAtSettlement ==
  \A i \in Invocations :
    (inv[i].mode = "async" /\ inv[i].pc \in {"fulfilled", "rejected"}) =>
      pendingPromises[inv[i].tmpl] = <<>>

\* C17 (as claimed): within one render invocation escape never returns the
\* token of one index for two different promises.
C17_TokensWriteOnce ==
  \A i \in Invocations :
    \A k, l \in DOMAIN inv[i].items :
      (DeferredAt(i, k) /\ DeferredAt(i, l) /\ inv[i].items[k].frag = inv[i].items[l].frag) =>
        inv[i].items[k].v.p = inv[i].items[l].v.p

\* The thenables invocation i passed to escape before its interpolation k.
DeferredBefore(i, k) == Cardinality({j \in 1 .. k - 1 : DeferredAt(i, j)})

\* C18 (as claimed): the k-th thenable (counting from 0) that a render passes
\* to escape receives the token of index k.
C18_SequentialIndices ==
  \A i \in Invocations :
    \A k \in DOMAIN inv[i].items :
      DeferredAt(i, k) => inv[i].items[k].frag = Token(DeferredBefore(i, k))

\* C19 (as claimed): every sentinel token in a render's output string, and
\* every chunk its resolver replaces as a token, stands at an interpolation
\* where escape was given a thenable and returned that token.
C19_TokensOnlyFromEscape ==
  \A i \in Invocations :
    /\ \A k \in DOMAIN inv[i].out :
         IsToken(inv[i].out[k]) => (DeferredAt(i, k) /\ inv[i].items[k].frag = inv[i].out[k])
    /\ \A k \in DOMAIN inv[i].preOut :
         IsToken(inv[i].preOut[k]) => DeferredAt(i, k)

\* C20: when every promise settles, a resolver that has begun to await
\* returns or throws, so the promise of its render settles.
C20_ResolverReturns ==
  \A i \in Invocations :
    (inv[i].pc = "awaiting") ~> (inv[i].pc \in {"fulfilled", "rejected"})

\* The resolver has returned after a round that left token text in the
\* output: it met the list it had just emptied and did not await again.
C20_Witness ==
  \E i \in Invocations :
    /\ inv[i].pc = "fulfilled"
    /\ inv[i].resolved
    /\ inv[i].rounds = 1
    /\ inv[i].preOut = <<Token(0)>>
    /\ inv[i].out = <<Token(0)>>
    /\ pendingPromises[inv[i].tmpl] = <<>>

\* The fragments the engine's pass of invocation i put together.
Frags(i) == [k \in DOMAIN inv[i].items |-> inv[i].items[k].frag]

\* The promises invocation i passed to escape, in the order of the calls.
DeferredSeq(i) ==
  LET IsDeferred(it) == ~it.raw /\ it.v.t = "promise"
      its == SelectSeq(inv[i].items, IsDeferred)
  IN [k \in DOMAIN its |-> its[k].v.p]

\* C21: a render whose engine pass returned a string has returned that very
\* string, token text included; the resolver was not entered, nothing was
\* substituted, and the pending list is as the pass left it.
C21_ImmediateResultAsIs ==
  \A i \in Invocations :
    (inv[i].mode = "sync" /\ inv[i].underlying = "string") =>
      /\ inv[i].pc = "returned"
      /\ inv[i].out = Frags(i)
      /\ ~inv[i].resolved
      /\ inv[i].rounds = 0
      /\ inv[i].preOut = <<>>
      /\ pendingPromises[inv[i].tmpl] = inv[i].listAtCall \o DeferredSeq(i)

\* A synchronous render returned a string that holds a token and text.
C21_Witness ==
  \E i \in Invocations :
    /\ inv[i].mode = "sync"
    /\ inv[i].pc = "returned"
    /\ inv[i].entry = "render"
    /\ inv[i].out = <<Token(0), "&lt;">>
    /\ pendingPromises[inv[i].tmpl] = <<1>>

\* C22 (as claimed): given any value that has a callable `then`, object or
\* function, escape records it in the list and returns its token, and does
\* not hand it to the engine's escape.
C22_EveryThenableDeferred ==
  (lastCall.fn = "escape" /\ HasCallableThen(lastCall.input)) =>
    /\ ~lastCall.delegated
    /\ IsToken(lastCall.ret)
    /\ lastCall.listAfter =
         Append(IF lastCall.list = Absent THEN <<>> ELSE lastCall.list, lastCall.input.p)

\* C23: given a value that is neither nullish nor a thenable, escape calls the
\* engine's escape and returns what it returns, and the list, absent or not,
\* is as it was.
C23_OthersDelegated ==
  (lastCall.fn = "escape" /\ ~IsNullish(lastCall.input) /\ ~HasCallableThen(lastCall.input)) =>
    /\ lastCall.delegated
    /\ lastCall.ret = OriginalEscape(lastCall.input)
    /\ lastCall.listAfter = lastCall.list

\* escape was given "<" on a Template object with a promise in its list.
C23_Witness ==
  /\ lastCall.fn = "escape"
  /\ lastCall.input = Str("<")
  /\ lastCall.list = <<1>>
  /\ lastCall.ret = "&lt;"
  /\ lastCall.listAfter = <<1>>

\* Promise p is an entry of the list (the absent list has none).
Listed(p, list) == list # Absent /\ \E k \in DOMAIN list : list[k] = p

\* C24 (as claimed): every promise that escape recorded is still in the list
\* of its Template object or was in a batch that a resolver awaited.
C24_NoPromiseDropped ==
  \A i \in Invocations :
    \A k \in DOMAIN inv[i].items :
      DeferredAt(i, k) =>
        \/ Listed(inv[i].items[k].v.p, pendingPromises[inv[i].tmpl])
        \/ \E j \in Invocations : Listed(inv[i].items[k].v.p, inv[j].batch)

\* C25: the substitution keeps every chunk that is not a token; it replaces a
\* token by the empty string when its index is at or beyond the length of the
\* resolved array or the value at its index is null or undefined, and by the
\* engine's escape of the value at its index otherwise, at every occurrence.
C25_SubstitutionByIndex ==
  lastCall.fn = "substitute" =>
    /\ Len(lastCall.retOut) = Len(lastCall.output)
    /\ \A k \in DOMAIN lastCall.output :
         IF ~IsToken(lastCall.output[k])
         THEN lastCall.retOut[k] = lastCall.output[k]
         ELSE IF ParseIdx(lastCall.output[k]) >= Len(lastCall.resolved)
         THEN lastCall.retOut[k] = ""
         ELSE IF lastCall.resolved[ParseIdx(lastCall.output[k]) + 1].t \in {"null", "undefined"}
         THEN lastCall.retOut[k] = ""
         ELSE lastCall.retOut[k] =
                HtmlEncode(ToStr(lastCall.resolved[ParseIdx(lastCall.output[k]) + 1]))

\* A token beyond the resolved array and a token within it.
C25_Witness ==
  /\ lastCall.fn = "substitute"
  /\ lastCall.output = <<Token(1), Token(0)>>
  /\ lastCall.resolved = <<Str("<")>>
  /\ lastCall.retOut = <<"", "&lt;">>

\* The same token twice, and a value that is undefined.
C25_WitnessTwice ==
  /\ lastCall.fn = "substitute"
  /\ lastCall.output = <<Token(1), Token(1)>>
  /\ lastCall.resolved = <<Undefined, Str("<")>>
  /\ lastCall.retOut = <<"&lt;", "&lt;">>

\* The four sources of globals, in the order the plugin reads them.
GlobalSources == HostRegistries \o <<host.options.globals>>

\* The sources that hold name n.
Holders(n) == {c \in DOMAIN GlobalSources : GlobalSources[c][n] # NoEntry}

\* C26: once the plugin is registered, a name that some of filters,
\* shortcodes, paired shortcodes and options.globals hold is bound, in the
\* table of the engine in use, to the entry of the last of them in that order
\* and to no other entry; a name that none holds is not bound.
C26_LastSourceWins ==
  plugin.status = "registered" =>
    \A n \in Names :
      IF Holders(n) = {}
      THEN EdgeGlobals[n] = NoEntry
      ELSE LET last == CHOOSE c \in Holders(n) : \A d \in Holders(n) : d <= c
           IN /\ EdgeGlobals[n] = GlobalSources[last][n]
              /\ {c \in Holders(n) : GlobalSources[c][n] = EdgeGlobals[n]} = {last}

\* One name is held by all four sources, the other by the first two.
C26_Witness ==
  /\ plugin.status = "registered"
  /\ Holders("icon") = {1, 2, 3, 4}
  /\ Holders("year") = {1, 2}
  /\ EdgeGlobals = [n \in Names |-> IF n = "icon" THEN "global:icon" ELSE "shortcode:year"]

====
